---- MODULE Spec2Model ----
(***************************************************************************)
(* The email-to-transaction ingestion pipeline of confam: the webhook      *)
(* (direct mode), the gmail-poller edge function (MODE 1: mailbox fetch,   *)
(* MODE 2: re-processing of status='new' rows), the dashboard writes that  *)
(* touch the same table, and the transactions table they share.            *)
(*                                                                         *)
(* Amounts are integers counted in thousandths of a Naira, so that the     *)
(* NUMERIC(15,2) column's rounding is visible.  Text is kept as TLA+       *)
(* strings; a From header is a sequence of tokens (maximal runs of word    *)
(* characters, and the separators "<" ">" "@" "." " ").                    *)
(***************************************************************************)
EXTENDS Integers, Sequences, FiniteSets, TLC

\* ------------------------------------------------------------------ bounds

\* Webhook deliveries in flight or finished.
MaxDeliveries == 2
\* Poll-trigger calls in flight or finished.
MaxPolls == 2
\* Messages in the mailbox.
MaxMsgs == 2
\* Rows the transactions table may hold.
MaxRows == 2
\* Tokens a From header carries before its domain.
MaxPrefixLen == 3

\* ------------------------------------------------------------ JSON values

\* A JSON value as JavaScript sees it: its typeof, and its number or string.
JNum(n) == [ty |-> "number", n |-> n, s |-> ""]
JStr(s) == [ty |-> "string", n |-> 0, s |-> s]
JUndefined == [ty |-> "undefined", n |-> 0, s |-> ""]

\* JavaScript truthiness of a JSON value (used by `parsed.sender_name`).
Truthy(v) ==
  CASE v.ty = "number" -> v.n # 0
    [] v.ty = "string" -> v.s # ""
    [] OTHER -> FALSE

\* String(v) for a defined JSON value.
JsString(v) == IF v.ty = "number" THEN ToString(v.n) ELSE v.s

\* `v ?? d`: d when v is undefined (or null).
Coalesce(v, d) == IF v.ty = "undefined" THEN d ELSE v

\* No extraction (the JavaScript null).
NoExtraction == [found |-> FALSE, amount |-> 0, sender_name |-> "", bank_source |-> ""]

Extraction(a, s, b) == [found |-> TRUE, amount |-> a, sender_name |-> s, bank_source |-> b]

\* ---------------------------------------------------- the model's answers

\* What JSON.parse makes of the model's text: a syntax error, the literal
\* null, or an object with the three keys (each possibly missing).
ParsedTexts ==
  { [kind |-> k, amount |-> JUndefined, sender_name |-> JUndefined,
     bank_source |-> JUndefined] : k \in {"empty", "null", "prose"} } \cup
  { [kind |-> "object", amount |-> a, sender_name |-> s, bank_source |-> JStr("GTBank")] :
      a \in {JNum(5000000), JNum(4), JNum(0), JStr("5000")},
      s \in {JStr("John Doe"), JStr(""), JUndefined} } \cup
  { [kind |-> "object", amount |-> JNum(5000000), sender_name |-> JStr("John Doe"),
     bank_source |-> JUndefined] }

\* An answer of the generative-language endpoint: the fetch rejects
\* ("unreachable"), the status is not 2xx, the 2xx body is not JSON, or the
\* body carries a text, possibly wrapped in a ```json fence.
GeminiReplies ==
  { [net |-> n, fenced |-> FALSE, text |-> t] :
      n \in {"unreachable", "non2xx", "badbody"},
      t \in {x \in ParsedTexts : x.kind = "empty"} } \cup
  { [net |-> "ok", fenced |-> f, text |-> t] : f \in BOOLEAN, t \in ParsedTexts }

\* text.replace(/```json\n?/g, "").replace(/```\n?/g, "").trim(): the fence
\* is removed and the text inside is what is parsed.
StripFences(reply) == [reply EXCEPT !.fenced = FALSE]

\* JSON.parse(text) throws: empty text, prose, or a text still fenced.
ParseThrows(reply) == reply.fenced \/ reply.text.kind \in {"empty", "prose"}

\* ----------------------------------------------- Sender Verification Filter

Dom(name, tld) == <<name, ".", tld>>

ALLOWED_BANK_DOMAINS ==
  { Dom("gtbank", "com"), Dom("accessbankplc", "com"), Dom("zenithbank", "com"),
    Dom("ubagroup", "com"), Dom("firstbanknig", "com"), Dom("opay-nigeria", "com"),
    Dom("moniepoint", "com"), Dom("kuda", "co"), Dom("alat", "ng"),
    Dom("wemabank", "com"), Dom("fidelitybank", "ng"), Dom("ecobank", "com"),
    Dom("fairmoney", "ng"), Dom("stanbicibtc", "com"), Dom("sterling", "ng"),
    Dom("unionbankng", "com"), Dom("palmpay", "com"), Dom("getcarbon", "co"),
    Dom("safehavenmfb", "com"), Dom("polarisbanklimited", "com") }

IsSpace(t) == t = " "

\* The first index >= from of token t in h, or 0.
FirstIndex(h, t, from) ==
  IF \E k \in from..Len(h) : h[k] = t
  THEN CHOOSE k \in from..Len(h) : h[k] = t /\ \A m \in from..(k - 1) : h[m] # t
  ELSE 0

\* fromHeader.match(/<([^>]+)>/): the places where the pattern matches.
AngleStarts(h) ==
  { i \in 1..Len(h) : h[i] = "<" /\ FirstIndex(h, ">", i + 1) >= i + 2 }

\* The whitespace-free run of h that starts at p.
RunEnd(h, p) ==
  IF \E k \in p..Len(h) : IsSpace(h[k])
  THEN (CHOOSE k \in p..Len(h) : IsSpace(h[k]) /\ \A m \in p..(k - 1) : ~IsSpace(h[m])) - 1
  ELSE Len(h)

\* fromHeader.match(/([^\s]+@[^\s]+)/): the run starts where the pattern matches.
BareStarts(h) ==
  { p \in 1..Len(h) :
      /\ ~IsSpace(h[p])
      /\ \E q \in (p + 1)..(RunEnd(h, p) - 1) : h[q] = "@" }

Min(S) == CHOOSE x \in S : \A y \in S : x <= y

\* emailMatch?.[1] ?? fromHeader
ExtractEmail(h) ==
  IF AngleStarts(h) # {}
  THEN LET i == Min(AngleStarts(h)) IN SubSeq(h, i + 1, FirstIndex(h, ">", i + 1) - 1)
  ELSE IF BareStarts(h) # {}
  THEN LET p == Min(BareStarts(h)) IN SubSeq(h, p, RunEnd(h, p))
  ELSE h

\* email.split("@")[1] ?? "": what lies between the first and the second "@".
AfterAt(e) ==
  LET a == FirstIndex(e, "@", 1) IN
  IF a = 0 THEN <<>>
  ELSE LET b == FirstIndex(e, "@", a + 1) IN
       SubSeq(e, a + 1, IF b = 0 THEN Len(e) ELSE b - 1)

\* toLowerCase() on the tokens the model's headers use.
LowerToken(t) ==
  CASE t = "GTBANK" -> "gtbank"
    [] t = "COM" -> "com"
    [] OTHER -> t

ToLowerCase(d) == [k \in 1..Len(d) |-> LowerToken(d[k])]

RECURSIVE TrimLeft(_)
TrimLeft(d) == IF d # <<>> /\ IsSpace(Head(d)) THEN TrimLeft(Tail(d)) ELSE d

RECURSIVE TrimRight(_)
TrimRight(d) ==
  IF d # <<>> /\ IsSpace(d[Len(d)]) THEN TrimRight(SubSeq(d, 1, Len(d) - 1)) ELSE d

Trim(d) == TrimRight(TrimLeft(d))

EndsWith(d, suffix) ==
  Len(d) >= Len(suffix) /\ SubSeq(d, Len(d) - Len(suffix) + 1, Len(d)) = suffix

DomainOf(fromHeader) == Trim(ToLowerCase(AfterAt(ExtractEmail(fromHeader))))

isAllowedDomain(fromHeader) ==
  LET domain == DomainOf(fromHeader) IN
  \E allowed \in ALLOWED_BANK_DOMAINS :
    domain = allowed \/ EndsWith(domain, <<".">> \o allowed)

\* The From headers of the model's emails.
FromBank == <<"GTBank", " ", "<", "alerts", "@", "GTBANK", ".", "COM", ">">>
FromBankSub == <<"alerts", "@", "mail", ".", "gtbank", ".", "com">>
FromOther == <<"noreply", "@", "facebook", ".", "com">>
FromLookalike == <<"alerts", "@", "notgtbank", ".", "com">>
FromNone == <<>>

\* The sequences over S of length n.
SeqsOfLen(S, n) == [1..n -> S]

\* From headers at large: some tokens (a name, a space, "@", "<"), then a
\* domain or none, then an ending.
HeaderSpace ==
  { prefix \o domain \o ending :
      prefix \in UNION { SeqsOfLen({"alerts", " ", "@", "<"}, n) : n \in 0..MaxPrefixLen },
      domain \in { <<>>, Dom("gtbank", "com"), Dom("GTBANK", "COM"),
                   <<"mail", ".">> \o Dom("gtbank", "com"),
                   Dom("notgtbank", "com"), Dom("facebook", "com") },
      ending \in { <<>>, <<">">>, <<" ", ">">>, <<" ", "x">>, <<"@", "x">> } }

\* ------------------------------------------------------- Extraction Engine

\* fetch() rejects (endpoint unreachable) or res.json() rejects (the 2xx
\* body is not JSON): neither await is inside a try block, so the rejection
\* leaves extractWithGemini.
GeminiThrows(reply) == reply.net \in {"unreachable", "badbody"}

\* Webhook: amount must be a number > 0 and sender_name truthy.
ValidateStrict(parsed) ==
  IF /\ parsed.kind = "object"
     /\ parsed.amount.ty = "number"
     /\ parsed.amount.n > 0
     /\ Truthy(parsed.sender_name)
  THEN Extraction(parsed.amount.n, JsString(parsed.sender_name),
                  JsString(Coalesce(parsed.bank_source, JStr("Unknown"))))
  ELSE NoExtraction

\* gmail-poller: amount must be a number (of any sign) and sender_name truthy.
ValidateLoose(parsed) ==
  IF /\ parsed.kind = "object"
     /\ parsed.amount.ty = "number"
     /\ Truthy(parsed.sender_name)
  THEN Extraction(parsed.amount.n, JsString(parsed.sender_name),
                  JsString(Coalesce(parsed.bank_source, JStr("Unknown"))))
  ELSE NoExtraction

\* extractWithGemini of the webhook, for a reply that does not throw.
WebhookExtractWithGemini(reply) ==
  IF reply.net # "ok" THEN NoExtraction
  ELSE IF reply.text.kind = "empty" \/ (reply.text.kind = "null" /\ ~reply.fenced)
  THEN NoExtraction
  ELSE LET cleaned == StripFences(reply) IN
       IF ParseThrows(cleaned) THEN NoExtraction ELSE ValidateStrict(cleaned.text)

\* extractWithGemini of the gmail-poller, for a reply that does not throw.
PollerExtractWithGemini(reply) ==
  IF reply.net # "ok" THEN NoExtraction
  ELSE LET cleaned == StripFences(reply) IN
       IF ParseThrows(cleaned) THEN NoExtraction ELSE ValidateLoose(cleaned.text)

\* ------------------------------------------------------- Transaction Store

Companies == {"c1", "c2"}
\* A request body without company_id / without message_id (both falsy).
NoCompany == ""
NoMessageId == ""
MessageIds == {"m1", "m2"}

\* A check of company_id that lets every request through.
MissingCompanyNever(company_id) == FALSE

\* `!company_id`: the body carries no company_id.
MissingCompany(company_id) == company_id = NoCompany

\* NUMERIC(15, 2): a value is rounded to two decimals (half away from zero)
\* when it is stored.  Amounts are in thousandths.
Numeric15_2(a) ==
  IF a >= 0 THEN ((a + 5) \div 10) * 10 ELSE 0 - (((0 - a) + 5) \div 10) * 10

\* An INSERT that leaves status to the column default.
NewRowDefaultStatus(tbl, company_id, amount, sender_name, bank_source, status, message_id) ==
  [ id |-> Len(tbl) + 1,
    company_id |-> company_id,
    amount |-> Numeric15_2(amount),
    sender_name |-> sender_name,
    bank_source |-> bank_source,
    status |-> "new",
    message_id |-> message_id,
    created_at |-> Len(tbl) + 1,
    item_description |-> "",
    acknowledged_at |-> 0,
    staff_id |-> "" ]

\* The row an INSERT adds to table tbl: id and created_at are generated;
\* item_description, acknowledged_at and staff_id are NULL ("", 0, "").
NewRow(tbl, company_id, amount, sender_name, bank_source, status, message_id) ==
  [ id |-> Len(tbl) + 1,
    company_id |-> company_id,
    amount |-> Numeric15_2(amount),
    sender_name |-> sender_name,
    bank_source |-> bank_source,
    status |-> status,
    message_id |-> message_id,
    created_at |-> Len(tbl) + 1,
    item_description |-> "",
    acknowledged_at |-> 0,
    staff_id |-> "" ]

\* The uniqueness constraint on message_id: a non-null message_id that a row
\* of tbl already carries makes an INSERT fail.
MessageIdNeverTaken(tbl, mid) == FALSE

MessageIdTaken(tbl, mid) ==
  mid # NoMessageId /\ \E i \in 1..Len(tbl) : tbl[i].message_id = mid

\* A lookup that finds no row, whatever the table holds.
LookupNeverFinds(tbl, mid) == FALSE

\* .from("transactions").select("id").eq("message_id", mid).maybeSingle()
LookupByMessageId(tbl, mid) == \E i \in 1..Len(tbl) : tbl[i].message_id = mid

\* An update done as delete and insert: the row gets a fresh id.
UpdateRowNewId(tbl, id, upd) ==
  [i \in 1..Len(tbl) |->
     IF tbl[i].id = id
     THEN [f \in DOMAIN tbl[i] |->
             IF f = "id" THEN Len(tbl) + 1
             ELSE IF f \in DOMAIN upd THEN upd[f] ELSE tbl[i][f]]
     ELSE tbl[i]]

\* .update(fields).eq("id", id): the row with that id gets the fields of upd.
UpdateRow(tbl, id, upd) ==
  [i \in 1..Len(tbl) |->
     IF tbl[i].id = id
     THEN [f \in DOMAIN tbl[i] |-> IF f \in DOMAIN upd THEN upd[f] ELSE tbl[i][f]]
     ELSE tbl[i]]

\* ------------------------------------------------------------------- state

VARIABLES
  env,            \* the edge functions' environment (Deno.env)
  transactions,   \* public.transactions: the sequence of rows, row i has id i
  origin,         \* history: for row i, the path that inserted it, the From
                  \* header of the email it was made from and the mailbox
                  \* message it was made from (0: none)
  mailbox,        \* the Gmail mailbox: message k's From header and UNREAD label
  wh,             \* the webhook deliveries
  poll,           \* the poll-trigger calls
  companies,      \* public.companies: for each id, the row's columns
  reads,          \* the latest read of the transactions by a staff kiosk
                  \* (get_staff_transactions) or a boss session (SELECT)
  viewer          \* a mounted dashboard: its fetch and its in-memory list

vars == <<env, transactions, origin, mailbox, wh, poll, companies, reads, viewer>>

Deliveries == 1..MaxDeliveries
Polls == 1..MaxPolls

\* The configured secret, and a header that differs from it.
TheSecret == "s3cret"
Secrets == {TheSecret, "wrong"}

EnvConfigs ==
  { [GEMINI_API_KEY |-> TRUE, SUPABASE |-> TRUE, WEBHOOK_SECRET |-> TheSecret],
    [GEMINI_API_KEY |-> TRUE, SUPABASE |-> TRUE, WEBHOOK_SECRET |-> ""],
    [GEMINI_API_KEY |-> FALSE, SUPABASE |-> TRUE, WEBHOOK_SECRET |-> TheSecret] }

\* An environment check that lets every environment pass.
MissingEnvNever(e) == FALSE

\* `if (!GEMINI_API_KEY || !SUPABASE_URL || !<key>)`: a value the handler
\* requires is absent.  WEBHOOK_SECRET is read and not required.
MissingEnv(e) == ~e.GEMINI_API_KEY \/ ~e.SUPABASE

NoResponse == [status |-> 0, reason |-> ""]
Response(status, reason) == [status |-> status, reason |-> reason]

\* stored_on_arrival, lookup, secret_matches and model_calls are history:
\* whether a row with the delivery's message_id was in the table when it
\* arrived, how its dedup lookup went ("none": not made, "answered",
\* "failed"), whether its x-webhook-secret header was the configured value,
\* and how many times extractWithGemini was called for it.
IdleDelivery ==
  [ pc |-> "idle", company_id |-> NoCompany, from |-> FromNone,
    message_id |-> NoMessageId, extracted |-> NoExtraction, resp |-> NoResponse,
    stored_on_arrival |-> FALSE, lookup |-> "none", secret_matches |-> FALSE,
    model_calls |-> 0 ]

\* rejected and called are history: the inserts and updates of the call that
\* the database rejected, and whether extractWithGemini was called for the
\* item the loop is at.
IdlePoll ==
  [ pc |-> "idle", company_id |-> NoCompany, access_token |-> FALSE,
    messages |-> <<>>, newTxs |-> <<>>, i |-> 1, extracted |-> NoExtraction,
    processed |-> 0, succeeded |-> 0, failed |-> 0, resp |-> NoResponse,
    rejected |-> 0, called |-> FALSE ]

\* auth.uid() of the signed-in owners, and of a session without a user.
Users == {"u1", "u2"}
NoUser == ""

\* The values of companies.company_code and companies.staff_pin.
CompanyCodes == {"SHOP1", "SHOP2"}
StaffPins == {"1234", "9999"}

\* public.companies as the owners set it up: one company each, both with the
\* same staff PIN, system_active at its default.
InitCompanies ==
  [c \in Companies |->
     [ company_code |-> IF c = "c1" THEN "SHOP1" ELSE "SHOP2",
       staff_pin |-> "1234",
       owner_id |-> IF c = "c1" THEN "u1" ELSE "u2",
       system_active |-> TRUE ]]

\* No read of the transactions has been made.
NoRead ==
  [ by |-> "none", company_id |-> NoCompany, company_code |-> "", staff_pin |-> "",
    uid |-> NoUser, raised |-> "", rows |-> <<>> ]

\* A dashboard that is not mounted.  cursor is the number of rows of the
\* table whose INSERT event the channel has handed on or passed over;
\* fetched and notified are history: the ids the fetch returned and the ids
\* of the INSERT events the callback was called with.
Unmounted ==
  [ pc |-> "unmounted", company_id |-> NoCompany, uid |-> NoUser, data |-> <<>>,
    transactions |-> <<>>, cursor |-> 0, fetched |-> {}, notified |-> {} ]

\* Message k of the mailbox: odd messages come from a bank, even ones do not.
MailFrom(k) == IF k % 2 = 1 THEN FromBank ELSE FromOther

Init ==
  /\ env \in EnvConfigs
  /\ transactions = <<>>
  /\ origin = <<>>
  /\ \E n \in 0..MaxMsgs : mailbox = [k \in 1..n |-> [from |-> MailFrom(k), unread |-> TRUE]]
  /\ wh = [d \in Deliveries |-> IdleDelivery]
  /\ poll = [p \in Polls |-> IdlePoll]
  /\ companies = InitCompanies
  /\ reads = NoRead
  /\ viewer = Unmounted

\* ----------------------------------------------------------------- webhook

WebhookFroms == {FromBank, FromOther, FromNone}

\* The end of a request: its response; the extraction result is gone.
Finish(rec, status, reason) ==
  [rec EXCEPT !.pc = "done", !.resp = Response(status, reason),
              !.extracted = NoExtraction]

\* A dedup step that is taken for every delivery.
HasMessageIdAlways(message_id) == TRUE

\* `if (message_id)`: the body carries a message_id.
HasMessageId(message_id) == message_id # NoMessageId

\* A sender filter that logs the rejection and goes on to the extraction.
RejectedSenderGoesOn(req) == [req EXCEPT !.pc = "extract"]

\* `if (!isAllowedDomain(from))`: skipped, 200, nothing else is done.
OnRejectedSender(req) == Finish(req, 200, "sender_domain_not_allowed")

\* A delivery arrives: environment check, webhook secret, company_id, sender
\* domain; what passes goes on to the dedup lookup (with a message_id) or to
\* the extraction (without).  The header is read after the environment check
\* and the body's fields after the secret check.
WebhookReceiveOf(d, froms) ==
  /\ wh[d].pc = "idle"
  /\ \A e \in 1..(d - 1) : wh[e].pc # "idle"
  /\ \E secret \in Secrets, company_id \in {"c1", NoCompany},
        from \in froms, message_id \in MessageIds \cup {NoMessageId} :
       LET req == [wh[d] EXCEPT !.company_id = company_id,
                                !.from = from, !.message_id = message_id,
                                !.secret_matches = (secret = env.WEBHOOK_SECRET),
                                !.stored_on_arrival =
                                   \E i \in 1..Len(transactions) :
                                     /\ message_id # NoMessageId
                                     /\ transactions[i].message_id = message_id] IN
       wh' = [wh EXCEPT ![d] =
         IF MissingEnv(env)
         THEN Finish(wh[d], 500, "Missing environment variables")
         ELSE IF env.WEBHOOK_SECRET # "" /\ secret # env.WEBHOOK_SECRET
         THEN Finish(wh[d], 401, "Unauthorized")
         ELSE IF MissingCompany(company_id)
         THEN Finish(req, 400, "company_id required")
         ELSE IF ~isAllowedDomain(from)
         THEN OnRejectedSender(req)
         ELSE IF HasMessageId(message_id)
         THEN [req EXCEPT !.pc = "dedup"]
         ELSE [req EXCEPT !.pc = "extract"]]
  /\ UNCHANGED <<companies, reads, viewer, env, transactions, origin, mailbox, poll>>

WebhookReceive(d) == WebhookReceiveOf(d, WebhookFroms)

\* Deduplication: the lookup by message_id.  Its error is not read: a lookup
\* that fails gives no row, as one that finds none.
WebhookDedup(d) ==
  /\ wh[d].pc = "dedup"
  /\ \E answered \in BOOLEAN :
       LET req == [wh[d] EXCEPT !.lookup = IF answered THEN "answered" ELSE "failed"] IN
       wh' = [wh EXCEPT ![d] =
         IF answered /\ LookupByMessageId(transactions, wh[d].message_id)
         THEN Finish(req, 200, "duplicate")
         ELSE [req EXCEPT !.pc = "extract"]]
  /\ UNCHANGED <<companies, reads, viewer, env, transactions, origin, mailbox, poll>>

\* The call of extractWithGemini and the answer to "no extraction".
WebhookExtract(d) ==
  /\ wh[d].pc = "extract"
  /\ \E reply \in GeminiReplies :
       LET req == [wh[d] EXCEPT !.model_calls = wh[d].model_calls + 1] IN
       wh' = [wh EXCEPT ![d] =
         IF GeminiThrows(reply)
         THEN Finish(req, 500, "extraction_exception")
         ELSE LET extracted == WebhookExtractWithGemini(reply) IN
              IF ~extracted.found
              THEN Finish(req, 200, "no_payment_data_found")
              ELSE [req EXCEPT !.pc = "insert", !.extracted = extracted]]
  /\ UNCHANGED <<companies, reads, viewer, env, transactions, origin, mailbox, poll>>

\* An insert whose error is not looked at.
InsertErrorIgnored(rec, message) == Finish(rec, 200, "success")

\* `if (insertError)`: 500 with insertError.message.
OnInsertError(rec, message) == Finish(rec, 500, message)

\* The insert of the completed row, and the answer; the success response
\* carries the extracted amount and sender_name.  insertError.message is
\* the body of the 500 response, so a rejection by the unique constraint
\* ("duplicate_key") reads differently from any other ("insert_error").
WebhookInsert(d) ==
  /\ wh[d].pc = "insert"
  /\ \E accepted \in BOOLEAN :
       IF MessageIdTaken(transactions, wh[d].message_id)
       THEN /\ wh' = [wh EXCEPT ![d] = OnInsertError(wh[d], "duplicate_key")]
            /\ UNCHANGED <<transactions, origin>>
       ELSE IF accepted
       THEN /\ Len(transactions) < MaxRows
            /\ transactions' = Append(transactions,
                 NewRow(transactions, wh[d].company_id, wh[d].extracted.amount,
                        wh[d].extracted.sender_name, wh[d].extracted.bank_source,
                        "completed", wh[d].message_id))
            /\ origin' = Append(origin, [via |-> "webhook", from |-> wh[d].from, msg |-> 0])
            /\ wh' = [wh EXCEPT ![d] =
                 [Finish(wh[d], 200, "success") EXCEPT !.extracted = wh[d].extracted]]
       ELSE /\ wh' = [wh EXCEPT ![d] = OnInsertError(wh[d], "insert_error")]
            /\ UNCHANGED <<transactions, origin>>
  /\ UNCHANGED <<companies, reads, viewer, env, mailbox, poll>>

NextWebhook ==
  \E d \in Deliveries :
    \/ WebhookReceive(d)
    \/ WebhookDedup(d)
    \/ WebhookExtract(d)
    \/ WebhookInsert(d)

\* Deliveries alone: the mailbox plays no part.
InitWebhook == Init /\ mailbox = <<>>

SpecWebhook == InitWebhook /\ [][NextWebhook]_vars

\* ------------------------------------------------------------ gmail-poller

\* maxResults of the Gmail list request.
GmailMaxResults == 5

\* The first n elements of a sequence.
Take(s, n) == SubSeq(s, 1, IF Len(s) < n THEN Len(s) ELSE n)

RECURSIVE SelectIds(_, _, _)
\* The indices k..Len(s) of s whose element satisfies keep, in order.
SelectIds(s, k, keep) ==
  IF k > Len(s) THEN <<>>
  ELSE (IF keep[k] THEN <<k>> ELSE <<>>) \o SelectIds(s, k + 1, keep)

\* A list request that forgets is:unread.
ListAllMail(mbox) ==
  Take(SelectIds(mbox, 1, [k \in 1..Len(mbox) |-> TRUE]), GmailMaxResults)

\* q=is:unread ...&maxResults=5: the ids of the unread messages.
ListUnread(mbox) ==
  Take(SelectIds(mbox, 1, [k \in 1..Len(mbox) |-> mbox[k].unread]), GmailMaxResults)

\* What the MODE 2 loop reads of a selected row.
Selected(row) == [id |-> row.id, sender_name |-> row.sender_name, status |-> row.status]

\* A select that forgets .eq("status", "new").
SelectAllOf(tbl, c) ==
  LET ids == SelectIds(tbl, 1, [k \in 1..Len(tbl) |-> tbl[k].company_id = c])
  IN  [j \in 1..Len(ids) |-> Selected(tbl[ids[j]])]

\* A select that forgets .eq("company_id", c).
SelectNewOfAnyCompany(tbl, c) ==
  LET ids == SelectIds(tbl, 1, [k \in 1..Len(tbl) |-> tbl[k].status = "new"])
  IN  [j \in 1..Len(ids) |-> Selected(tbl[ids[j]])]

\* .select("*").eq("company_id", c).eq("status", "new")
SelectNew(tbl, c) ==
  LET ids == SelectIds(tbl, 1,
               [k \in 1..Len(tbl) |-> tbl[k].company_id = c /\ tbl[k].status = "new"])
  IN  [j \in 1..Len(ids) |-> Selected(tbl[ids[j]])]

\* The batch of a call: the listed messages (MODE 1) or the selected rows.
BatchLen(rec) == IF rec.access_token THEN Len(rec.messages) ELSE Len(rec.newTxs)

\* The end of a call: its response; the handler's locals are gone.
PollFinish(rec, status, reason) ==
  [Finish(rec, status, reason) EXCEPT !.messages = <<>>, !.newTxs = <<>>, !.i = 1,
                                      !.extracted = NoExtraction, !.called = FALSE]

\* The answer of a call whose loop is over.
PollSuccess(rec) == PollFinish(rec, 200, "success")

\* The end of one loop iteration: the next item, or the success response.
NextItem(rec) ==
  IF rec.i < BatchLen(rec)
  THEN [rec EXCEPT !.i = rec.i + 1, !.extracted = NoExtraction, !.called = FALSE,
                   !.pc = IF rec.access_token THEN "fetch" ELSE "examine"]
  ELSE PollSuccess([rec EXCEPT !.extracted = NoExtraction])

\* A failed item that is passed over without being counted.
SkipUncounted(rec) == NextItem(rec)

\* `failed++` and on to the next item.
CountFailed(rec) == NextItem([rec EXCEPT !.failed = rec.failed + 1])

\* History: one more insert or update of the call was rejected.
Rejected(rec) == [rec EXCEPT !.rejected = rec.rejected + 1]

\* `succeeded++`.
CountSucceeded(rec) == [rec EXCEPT !.succeeded = rec.succeeded + 1]

\* A rejected insert is counted and the message is marked read all the same.
PersistenceErrorThenMarkRead(rec) ==
  [rec EXCEPT !.failed = rec.failed + 1, !.pc = "markread"]

\* A rejected insert or update of a batch item aborts the call.
AbortOnPersistenceError(rec) == PollFinish(rec, 500, "persistence_exception")

\* `if (error) { failed++; }`: a rejected insert or update is counted and
\* the loop goes on.
OnPersistenceError(rec) == CountFailed(rec)

\* A catch block that undoes the inserts the call has counted.
RollBackBatch(tbl, rec) ==
  SubSeq(tbl, 1, IF Len(tbl) > rec.succeeded THEN Len(tbl) - rec.succeeded ELSE 0)

\* `catch (err)`: the table after an exception left the loop; the handler
\* answers and undoes nothing.
AfterException(tbl, rec) == tbl

\* A call arrives: environment check, company_id check, the mode.
PollStart(p) ==
  /\ poll[p].pc = "idle"
  /\ \A q \in 1..(p - 1) : poll[q].pc # "idle"
  /\ \E company_id \in {"c1", NoCompany}, access_token \in BOOLEAN :
       LET req == [poll[p] EXCEPT !.company_id = company_id,
                                  !.access_token = access_token] IN
       poll' = [poll EXCEPT ![p] =
         IF MissingEnv(env)
         THEN PollFinish(req, 500, "Missing required environment variables")
         ELSE IF MissingCompany(company_id)
         THEN PollFinish(req, 400, "company_id is required")
         ELSE [req EXCEPT !.pc = IF access_token THEN "list" ELSE "select"]]
  /\ UNCHANGED <<companies, reads, viewer, env, transactions, origin, mailbox, wh>>

\* MODE 1: the Gmail list request.
PollListMail(p) ==
  /\ poll[p].pc = "list"
  /\ \E listOk \in BOOLEAN :
       poll' = [poll EXCEPT ![p] =
         IF ~listOk THEN PollFinish(poll[p], 500, "Gmail list error")
         ELSE LET messages == ListUnread(mailbox)
                  rec == [poll[p] EXCEPT !.messages = messages,
                                         !.processed = Len(messages), !.i = 1]
              IN  IF messages = <<>> THEN PollSuccess(rec)
                  ELSE [rec EXCEPT !.pc = "fetch"]]
  /\ UNCHANGED <<companies, reads, viewer, env, transactions, origin, mailbox, wh>>

\* MODE 1, one message: the fetch of the full message and the extraction.
PollFetchExtract(p) ==
  /\ poll[p].pc = "fetch"
  /\ \E msgOk \in BOOLEAN, reply \in GeminiReplies :
       /\ poll' = [poll EXCEPT ![p] =
            IF ~msgOk THEN CountFailed(poll[p])
            ELSE IF GeminiThrows(reply)
            THEN PollFinish(poll[p], 500, "extraction_exception")
            ELSE LET extracted == PollerExtractWithGemini(reply) IN
                 IF extracted.found
                 THEN [poll[p] EXCEPT !.pc = "insert", !.extracted = extracted,
                                      !.called = TRUE]
                 ELSE CountFailed(poll[p])]
       /\ transactions' = IF msgOk /\ GeminiThrows(reply)
                          THEN AfterException(transactions, poll[p])
                          ELSE transactions
  /\ UNCHANGED <<companies, reads, viewer, env, origin, mailbox, wh>>

\* MODE 1, one message: the insert of the completed row.
PollInsert(p) ==
  /\ poll[p].pc = "insert"
  /\ \E accepted \in BOOLEAN :
       IF accepted
       THEN /\ Len(transactions) < MaxRows
            /\ transactions' = Append(transactions,
                 NewRow(transactions, poll[p].company_id, poll[p].extracted.amount,
                        poll[p].extracted.sender_name, poll[p].extracted.bank_source,
                        "completed", NoMessageId))
            /\ origin' = Append(origin,
                 [via |-> "poll", from |-> mailbox[poll[p].messages[poll[p].i]].from,
                  msg |-> poll[p].messages[poll[p].i]])
            /\ poll' = [poll EXCEPT ![p] =
                 [CountSucceeded(poll[p]) EXCEPT !.pc = "markread"]]
       ELSE /\ poll' = [poll EXCEPT ![p] = OnPersistenceError(Rejected(poll[p]))]
            /\ UNCHANGED <<transactions, origin>>
  /\ UNCHANGED <<companies, reads, viewer, env, mailbox, wh>>

\* MODE 1, one message: the UNREAD label is removed; a request that fails
\* is swallowed (.catch(() => {})).
PollMarkRead(p) ==
  /\ poll[p].pc = "markread"
  /\ \E modified \in BOOLEAN :
       mailbox' = IF modified
                  THEN [mailbox EXCEPT ![poll[p].messages[poll[p].i]].unread = FALSE]
                  ELSE mailbox
  /\ poll' = [poll EXCEPT ![p] = NextItem(poll[p])]
  /\ UNCHANGED <<companies, reads, viewer, env, transactions, origin, wh>>

\* MODE 2: the select of the company's status='new' rows.
PollSelectNew(p) ==
  /\ poll[p].pc = "select"
  /\ \E fetched \in BOOLEAN :
       poll' = [poll EXCEPT ![p] =
         IF ~fetched THEN PollFinish(poll[p], 500, "DB fetch error")
         ELSE LET newTxs == SelectNew(transactions, poll[p].company_id)
                  rec == [poll[p] EXCEPT !.newTxs = newTxs,
                                         !.processed = Len(newTxs), !.i = 1]
              IN  IF newTxs = <<>> THEN PollSuccess(rec)
                  ELSE [rec EXCEPT !.pc = "examine"]]
  /\ UNCHANGED <<companies, reads, viewer, env, transactions, origin, mailbox, wh>>

\* A length test with a lower threshold.
TooShortBelow3(rawText) == rawText = "" \/ Len(rawText) < 3

\* The raw text of a selected row is too short to be sent to the model.
TooShort(rawText) == rawText = "" \/ Len(rawText) < 10

\* MODE 2, one row: the raw text is looked at and, unless it is too short,
\* sent to the model.
PollExamineRow(p) ==
  /\ poll[p].pc = "examine"
  /\ LET rawText == poll[p].newTxs[poll[p].i].sender_name IN
     IF TooShort(rawText)
     THEN /\ poll' = [poll EXCEPT ![p] = [poll[p] EXCEPT !.pc = "update",
                                                         !.extracted = NoExtraction]]
          /\ UNCHANGED transactions
     ELSE \E reply \in GeminiReplies :
            /\ poll' = [poll EXCEPT ![p] =
                 IF GeminiThrows(reply)
                 THEN PollFinish(poll[p], 500, "extraction_exception")
                 ELSE [poll[p] EXCEPT !.pc = "update", !.called = TRUE,
                                      !.extracted = PollerExtractWithGemini(reply)]]
            /\ transactions' = IF GeminiThrows(reply)
                               THEN AfterException(transactions, poll[p])
                               ELSE transactions
  /\ UNCHANGED <<companies, reads, viewer, env, origin, mailbox, wh>>

\* An update of the extracted values that leaves the status alone.
CompletedFieldsNoStatus(extracted) ==
  [ amount |-> Numeric15_2(extracted.amount), sender_name |-> extracted.sender_name,
    bank_source |-> extracted.bank_source ]

\* The fields MODE 2 writes for a successful extraction.
CompletedFields(extracted) ==
  [ amount |-> Numeric15_2(extracted.amount), sender_name |-> extracted.sender_name,
    bank_source |-> extracted.bank_source, status |-> "completed" ]

\* MODE 2, one row: the update to completed (its error is counted) or to
\* failed (its error is not read).
PollUpdateRow(p) ==
  /\ poll[p].pc = "update"
  /\ LET tx == poll[p].newTxs[poll[p].i] IN
     \E accepted \in BOOLEAN :
       /\ transactions' =
            IF ~accepted THEN transactions
            ELSE IF poll[p].extracted.found
            THEN UpdateRow(transactions, tx.id, CompletedFields(poll[p].extracted))
            ELSE UpdateRow(transactions, tx.id, [status |-> "failed"])
       /\ poll' = [poll EXCEPT ![p] =
            IF poll[p].extracted.found
            THEN IF accepted THEN NextItem(CountSucceeded(poll[p]))
                 ELSE OnPersistenceError(Rejected(poll[p]))
            ELSE CountFailed(IF accepted THEN poll[p] ELSE Rejected(poll[p]))]
  /\ UNCHANGED <<companies, reads, viewer, env, origin, mailbox, wh>>

\* ------------------------------------------------------ dashboard writes

\* handleSyncBankAlerts: the placeholder row inserted for a listed message.
SyncInsertPending(k) ==
  /\ k \in 1..Len(mailbox) /\ mailbox[k].unread
  /\ Len(transactions) < MaxRows
  /\ transactions' = Append(transactions,
       NewRow(transactions, "c1", 0, "Pending AI extraction", "Pending", "new",
              NoMessageId))
  /\ origin' = Append(origin, [via |-> "sync", from |-> mailbox[k].from, msg |-> k])
  /\ UNCHANGED <<companies, reads, viewer, env, mailbox, wh, poll>>

\* What a user may type into the add and edit forms (amount > 0, names
\* non-empty once trimmed).
FormAmounts == {2500000}
FormSenders == {"Ada"}

\* AddTransactionModal.handleAdd of the boss dashboard: a row with status new.
BossHandleAdd(c) ==
  /\ Len(transactions) < MaxRows
  /\ \E amount \in FormAmounts, sender \in FormSenders :
       transactions' = Append(transactions,
         NewRow(transactions, c, amount, sender, "GTBank", "new", NoMessageId))
  /\ origin' = Append(origin, [via |-> "manual", from |-> FromNone, msg |-> 0])
  /\ UNCHANGED <<companies, reads, viewer, env, mailbox, wh, poll>>

\* A save that also resets the status.
SaveFieldsResetStatus(amount, sender, bank) ==
  [amount |-> Numeric15_2(amount), sender_name |-> sender, bank_source |-> bank,
   status |-> "new"]

\* The fields EditTransactionModal.handleSave writes.
SaveFields(amount, sender, bank) ==
  [amount |-> Numeric15_2(amount), sender_name |-> sender, bank_source |-> bank]

\* EditTransactionModal.handleSave: amount, sender_name and bank_source of
\* one row are replaced.
EditHandleSave(id) ==
  /\ id \in 1..Len(transactions)
  /\ \E amount \in FormAmounts :
       \E sender \in FormSenders :
         transactions' = UpdateRow(transactions, id, SaveFields(amount, sender, "GTBank"))
  /\ UNCHANGED <<companies, reads, viewer, env, origin, mailbox, wh, poll>>

\* What the kiosk's confirm form and session hold: the item sold (trimmed,
\* "" when left empty) and the staff member's id ("" for a company login).
ItemsSold == {"", "rice"}
StaffIds == {"", "s1"}

\* A confirmation that stamps the row's created_at as well.
ConfirmFieldsStampCreatedAt(itemSold, now, staffId) ==
  [item_description |-> itemSold, acknowledged_at |-> now, staff_id |-> staffId,
   created_at |-> now]

\* The fields handleConfirmSale writes; "" stands for null.
ConfirmFields(itemSold, now, staffId) ==
  [item_description |-> itemSold, acknowledged_at |-> now, staff_id |-> staffId]

\* handleConfirmSale of the kiosk: the pending transaction gets the item
\* sold, the time of the confirmation and the staff member; an update the
\* store rejects is answered with a toast.  The clock is the table's: the
\* created_at the next row would get.
HandleConfirmSale(id) ==
  /\ id \in 1..Len(transactions)
  /\ \E itemSold \in ItemsSold, staffId \in StaffIds, accepted \in BOOLEAN :
       transactions' =
         IF accepted
         THEN UpdateRow(transactions, id,
                        ConfirmFields(itemSold, Len(transactions) + 1, staffId))
         ELSE transactions
  /\ UNCHANGED <<env, origin, mailbox, wh, poll, companies, reads, viewer>>

\* ------------------------------------------------------- reads and settings

\* The rows of tbl that satisfy keep, in table order.
FilterRows(tbl, keep) ==
  LET ids == SelectIds(tbl, 1, keep) IN [j \in 1..Len(ids) |-> tbl[ids[j]]]

\* ORDER BY created_at DESC: created_at grows along the table.
OrderByCreatedAtDesc(rows) == [j \in 1..Len(rows) |-> rows[Len(rows) + 1 - j]]

\* The columns get_staff_transactions returns of a row.
StaffColumns(row) ==
  [ id |-> row.id, company_id |-> row.company_id, amount |-> row.amount,
    sender_name |-> row.sender_name, bank_source |-> row.bank_source,
    status |-> row.status, created_at |-> row.created_at ]

\* A credential test that forgets system_active.
StaffLoginIgnoresActive(cs, p_company_id, p_company_code, p_staff_pin) ==
  \E c \in DOMAIN cs :
    /\ c = p_company_id
    /\ cs[c].company_code = p_company_code
    /\ cs[c].staff_pin = p_staff_pin

\* The EXISTS of get_staff_transactions: a company with that id, code and
\* PIN whose system_active is true.
StaffLoginMatches(cs, p_company_id, p_company_code, p_staff_pin) ==
  \E c \in DOMAIN cs :
    /\ c = p_company_id
    /\ cs[c].company_code = p_company_code
    /\ cs[c].staff_pin = p_staff_pin
    /\ cs[c].system_active = TRUE

\* get_staff_transactions; since stands for now() - INTERVAL '24 hours'.
get_staff_transactions(tbl, cs, p_company_id, p_company_code, p_staff_pin, since) ==
  IF ~StaffLoginMatches(cs, p_company_id, p_company_code, p_staff_pin)
  THEN [raised |-> "Unauthorized", rows |-> <<>>]
  ELSE LET kept == FilterRows(tbl, [k \in 1..Len(tbl) |->
                     tbl[k].company_id = p_company_id /\ tbl[k].created_at >= since])
       IN  [raised |-> "",
            rows |-> OrderByCreatedAtDesc([j \in 1..Len(kept) |-> StaffColumns(kept[j])])]

\* SELECT id FROM public.companies WHERE owner_id = auth.uid()
OwnedCompanies(cs, uid) == {c \in DOMAIN cs : cs[c].owner_id = uid}

\* "Boss: select own transactions": the rows a session of uid may read.
BossSelectPolicy(tbl, cs, uid) ==
  FilterRows(tbl, [k \in 1..Len(tbl) |-> tbl[k].company_id \in OwnedCompanies(cs, uid)])

\* .limit(100) of the dashboards' fetch.
FetchLimit == 100

\* fetchTransactions of the dashboards, run by a session of uid:
\* .select("*").eq("company_id", c).order("created_at", desc).limit(100)
SelectTransactions(tbl, cs, uid, c) ==
  LET visible == BossSelectPolicy(tbl, cs, uid)
      kept == FilterRows(visible, [k \in 1..Len(visible) |-> visible[k].company_id = c])
  IN  Take(OrderByCreatedAtDesc(kept), FetchLimit)

\* A kiosk calls get_staff_transactions with the credentials it holds.
StaffRead ==
  /\ \E p_company_id \in Companies, p_company_code \in CompanyCodes,
        p_staff_pin \in StaffPins, since \in 1..(Len(transactions) + 1) :
       LET res == get_staff_transactions(transactions, companies, p_company_id,
                                         p_company_code, p_staff_pin, since) IN
       reads' = [ by |-> "staff", company_id |-> p_company_id,
                  company_code |-> p_company_code, staff_pin |-> p_staff_pin,
                  uid |-> NoUser, raised |-> res.raised, rows |-> res.rows ]
  /\ UNCHANGED <<env, transactions, origin, mailbox, wh, poll, companies, viewer>>

\* A session of uid selects the transactions of company c.
BossRead ==
  /\ \E uid \in Users \cup {NoUser}, c \in Companies :
       reads' = [ by |-> "boss", company_id |-> c, company_code |-> "",
                  staff_pin |-> "", uid |-> uid, raised |-> "",
                  rows |-> SelectTransactions(transactions, companies, uid, c) ]
  /\ UNCHANGED <<env, transactions, origin, mailbox, wh, poll, companies, viewer>>

\* BossSettings.handleSave: the owner replaces code, PIN and system_active
\* of the company; a code another company carries is rejected (UNIQUE).
SettingsHandleSave(c) ==
  /\ \E code \in CompanyCodes, pin \in StaffPins, systemActive \in BOOLEAN :
       companies' =
         IF \E o \in Companies \ {c} : companies[o].company_code = code
         THEN companies
         ELSE [companies EXCEPT ![c].company_code = code, ![c].staff_pin = pin,
                                ![c].system_active = systemActive]
  /\ UNCHANGED <<env, transactions, origin, mailbox, wh, poll, reads, viewer>>

NextPoll ==
  \/ \E p \in Polls :
       \/ PollStart(p) /\ \A q \in 1..(p - 1) : poll[q].pc = "done"
       \/ PollListMail(p)
       \/ PollFetchExtract(p)
       \/ PollInsert(p)
       \/ PollMarkRead(p)
       \/ PollSelectNew(p)
       \/ PollExamineRow(p)
       \/ PollUpdateRow(p)
  \/ \E k \in 1..MaxMsgs : SyncInsertPending(k)
  \/ \E c \in Companies : BossHandleAdd(c)
  \/ \E id \in 1..MaxRows : EditHandleSave(id)

\* Poll calls and dashboard writes alone: the webhook secret plays no part.
InitPoll == Init /\ env.WEBHOOK_SECRET = TheSecret

SpecPoll == InitPoll /\ [][NextPoll]_vars

\* The sender filter alone: one delivery, its From header any of HeaderSpace.
NextFilter == WebhookReceiveOf(1, HeaderSpace)

SpecFilter == InitWebhook /\ [][NextFilter]_vars

\* One delivery, one poll call and the placeholder inserts, interleaved.
NextOneOfEach ==
  \/ WebhookReceive(1)
  \/ WebhookDedup(1)
  \/ WebhookExtract(1)
  \/ WebhookInsert(1)
  \/ PollStart(1)
  \/ PollListMail(1)
  \/ PollFetchExtract(1)
  \/ PollInsert(1)
  \/ PollMarkRead(1)
  \/ PollSelectNew(1)
  \/ PollExamineRow(1)
  \/ PollUpdateRow(1)
  \/ \E k \in 1..MaxMsgs : SyncInsertPending(k)

SpecOneOfEach == Init /\ [][NextOneOfEach]_vars

\* One delivery and one poll call among rows the owners of both companies
\* add by hand.
NextIngest ==
  \/ NextOneOfEach
  \/ \E c \in Companies : BossHandleAdd(c)

SpecIngest == Init /\ [][NextIngest]_vars

\* Phase B alone: calls without access_token, which may overlap, over the
\* placeholder rows of the dashboard's sync.
NextPhaseB ==
  \/ \E p \in Polls :
       \/ PollStart(p) /\ ~poll'[p].access_token
       \/ PollSelectNew(p)
       \/ PollExamineRow(p)
       \/ PollUpdateRow(p)
  \/ \E k \in 1..MaxMsgs : SyncInsertPending(k)

SpecPhaseB == InitPoll /\ [][NextPhaseB]_vars

\* ------------------------------------------------------------- dashboard

\* The dashboard of company c mounts in a session of uid: both effects run,
\* fetchTransactions is issued and the channel is subscribed, so that the
\* INSERT events of the rows added from now on are handed to it.
ViewerMount(uid, c) ==
  /\ viewer.pc = "unmounted"
  /\ viewer' = [viewer EXCEPT !.pc = "issued", !.company_id = c, !.uid = uid,
                              !.cursor = Len(transactions)]
  /\ UNCHANGED <<env, transactions, origin, mailbox, wh, poll, companies, reads>>

\* The store runs the query of fetchTransactions.
FetchServe ==
  /\ viewer.pc = "issued"
  /\ viewer' = [viewer EXCEPT !.pc = "served",
                 !.data = SelectTransactions(transactions, companies,
                                             viewer.uid, viewer.company_id)]
  /\ UNCHANGED <<env, transactions, origin, mailbox, wh, poll, companies, reads>>

\* The ids of the rows of a list.
IdsOf(rows) == {rows[j].id : j \in 1..Len(rows)}

\* The await of fetchTransactions resolves:
\* `if (!error && data) setTransactions(data)`.
FetchResolve ==
  /\ viewer.pc = "served"
  /\ \E error \in BOOLEAN :
       viewer' = IF error
                 THEN [viewer EXCEPT !.pc = "ready", !.data = <<>>]
                 ELSE [viewer EXCEPT !.pc = "ready", !.data = <<>>,
                                     !.transactions = viewer.data,
                                     !.fetched = IdsOf(viewer.data)]
  /\ UNCHANGED <<env, transactions, origin, mailbox, wh, poll, companies, reads>>

\* The channel comes to the INSERT of the next row: an event of the
\* viewer's company (filter company_id=eq.<id>) calls the callback,
\* `setTransactions((prev) => [payload.new, ...prev])`.
RealtimeInsert ==
  /\ viewer.pc # "unmounted"
  /\ viewer.cursor < Len(transactions)
  /\ LET newTx == transactions[viewer.cursor + 1] IN
     viewer' = IF newTx.company_id = viewer.company_id
               THEN [viewer EXCEPT !.cursor = viewer.cursor + 1,
                                   !.transactions = <<newTx>> \o viewer.transactions,
                                   !.notified = viewer.notified \cup {newTx.id}]
               ELSE [viewer EXCEPT !.cursor = viewer.cursor + 1]
  /\ UNCHANGED <<env, transactions, origin, mailbox, wh, poll, companies, reads>>

\* Every update of a transaction: one phase-B call, the edit form and the
\* kiosk's confirmation, over rows the dashboards insert.
NextUpdates ==
  \/ PollStart(1) /\ ~poll'[1].access_token
  \/ PollSelectNew(1)
  \/ PollExamineRow(1)
  \/ PollUpdateRow(1)
  \/ \E k \in 1..MaxMsgs : SyncInsertPending(k)
  \/ \E c \in Companies : BossHandleAdd(c)
  \/ \E id \in 1..MaxRows : EditHandleSave(id)
  \/ \E id \in 1..MaxRows : HandleConfirmSale(id)

SpecUpdates == InitPoll /\ [][NextUpdates]_vars

\* The dashboards alone: the mailbox and the webhook secret play no part.
InitDashboard == InitPoll /\ mailbox = <<>>

\* A dashboard of c1 in its owner's session, while rows are added.
NextViewer ==
  \/ ViewerMount("u1", "c1")
  \/ FetchServe
  \/ FetchResolve
  \/ RealtimeInsert
  \/ \E c \in Companies : BossHandleAdd(c)

SpecViewer == InitDashboard /\ [][NextViewer]_vars

\* Kiosk and owner reads, with the writes that decide what they may see.
NextAccess ==
  \/ StaffRead
  \/ BossRead
  \/ \E c \in Companies : SettingsHandleSave(c)
  \/ \E c \in Companies : BossHandleAdd(c)

SpecAccess == InitDashboard /\ [][NextAccess]_vars

Next == NextWebhook \/ NextPoll

Spec == Init /\ [][Next]_vars

\* ------------------------------------------------------------------ claims

\* A delivery that is a well-formed call of the webhook: it was not turned
\* away for the environment, the secret or a missing company_id.
Delivered(d) ==
  /\ wh[d].pc # "idle"
  /\ wh[d].resp.reason \notin
       {"Missing environment variables", "Unauthorized", "company_id required"}

\* The rows of company c whose status is new.
NewRowsOf(c) ==
  {i \in 1..Len(transactions) :
     transactions[i].company_id = c /\ transactions[i].status = "new"}

\* C1: in every reachable state, whatever the interleaving of the deliveries,
\* no two rows carry the same non-null message_id; and a delivery that reaches
\* its insert when a row with its message_id is stored ends with an error
\* response (HTTP 500) and the table is left as it was.
C1_MessageIdUnique ==
  /\ [](\A i, j \in 1..Len(transactions) :
          (i # j /\ transactions[i].message_id # NoMessageId)
            => transactions[i].message_id # transactions[j].message_id)
  /\ [][\A d \in Deliveries :
          (/\ wh[d].pc = "insert" /\ wh'[d].pc = "done"
           /\ wh[d].message_id # NoMessageId
           /\ \E i \in 1..Len(transactions) :
                transactions[i].message_id = wh[d].message_id)
          => (wh'[d].resp.status = 500 /\ transactions' = transactions)]_vars

\* C1, reached: two deliveries of one message_id both got past the lookup
\* (neither found a row); one stored the row, the other's insert was rejected
\* by the unique constraint, and one row carries the message_id.
C1_RaceLost ==
  \E d, e \in Deliveries :
    /\ d # e
    /\ wh[d].message_id # NoMessageId /\ wh[d].message_id = wh[e].message_id
    /\ wh[e].pc = "done" /\ wh[e].resp = Response(200, "success")
    /\ wh[d].pc = "done" /\ wh[d].resp = Response(500, "duplicate_key")
    /\ wh[d].lookup = "answered" /\ wh[e].lookup = "answered"
    /\ Cardinality({i \in 1..Len(transactions) :
                      transactions[i].message_id = wh[d].message_id}) = 1

\* C2 as stated: every row made from an email by the webhook or by the poll
\* trigger comes from a sender of an allow-listed domain (an email of any
\* other sender leaves no row).
C2_NoRowForUnlistedSender ==
  \A i \in 1..Len(origin) :
    origin[i].via \in {"webhook", "poll"} => isAllowedDomain(origin[i].from)

\* C3 as stated: every delivery whose message_id was that of a stored row
\* when it arrived is answered skipped/duplicate.
C3_DuplicateAlwaysSkipped ==
  \A d \in Deliveries :
    (wh[d].pc = "done" /\ Delivered(d) /\ wh[d].stored_on_arrival)
      => wh[d].resp = Response(200, "duplicate")

\* C3, amended: a delivery whose message_id was that of a stored row when it
\* arrived, whose sender domain is allow-listed and whose dedup lookup is
\* answered, is answered skipped/duplicate; and no step of a delivery whose
\* message_id was stored on arrival changes the table.
C3_DuplicateSkipped ==
  /\ [](\A d \in Deliveries :
          (/\ wh[d].pc = "done" /\ Delivered(d) /\ wh[d].stored_on_arrival
           /\ isAllowedDomain(wh[d].from) /\ wh[d].lookup = "answered")
          => wh[d].resp = Response(200, "duplicate"))
  /\ [][\A d \in Deliveries :
          (wh[d].stored_on_arrival /\ wh'[d] # wh[d])
            => transactions' = transactions]_vars

\* C3, reached: a delivery of a stored message_id was answered
\* skipped/duplicate by its lookup.
C3_DuplicateAnswered ==
  \E d \in Deliveries :
    /\ wh[d].pc = "done" /\ wh[d].stored_on_arrival /\ wh[d].lookup = "answered"
    /\ wh[d].resp = Response(200, "duplicate")
    /\ \E i \in 1..Len(transactions) : transactions[i].message_id = wh[d].message_id

\* C4 as stated: every row whose status is completed has amount > 0.
C4_CompletedAmountPositive ==
  \A i \in 1..Len(transactions) :
    transactions[i].status = "completed" => transactions[i].amount > 0

\* C5 as stated: an extraction output with amount <= 0 or an empty
\* sender_name is no extraction: what a handler holds as its extraction
\* result has amount > 0 and a non-empty sender_name.
C5_InvalidOutputIsNull ==
  /\ \A d \in Deliveries :
       wh[d].extracted.found =>
         (wh[d].extracted.amount > 0 /\ wh[d].extracted.sender_name # "")
  /\ \A p \in Polls :
       poll[p].extracted.found =>
         (poll[p].extracted.amount > 0 /\ poll[p].extracted.sender_name # "")

\* C6: no step takes a row whose status is completed or failed back to new.
C6_StatusNeverBackToNew ==
  [][\A i \in 1..Len(transactions) :
       transactions[i].status \in {"completed", "failed"}
         => transactions'[i].status # "new"]_vars

\* C6, reached: a placeholder row was completed by phase B and then saved
\* from the edit form; it is still completed.
C6_EditedAfterCompletion ==
  \E i \in 1..Len(transactions) :
    /\ origin[i].via = "sync"
    /\ transactions[i].status = "completed"
    /\ transactions[i].sender_name \in FormSenders

\* C7: with one pass finished before the next starts, a phase B pass selects
\* and counts exactly the company's rows that are new at its select, and its
\* updates change only rows whose status is new.
C7_OnlyNewRowsTouched ==
  /\ [][\A p \in Polls :
          (poll[p].pc = "select" /\ poll'[p] # poll[p] /\ poll'[p].resp.status # 500)
          => /\ poll'[p].processed = Cardinality(NewRowsOf(poll[p].company_id))
             /\ \A j \in 1..Len(poll'[p].newTxs) :
                  poll'[p].newTxs[j].id \in NewRowsOf(poll[p].company_id)]_vars
  /\ [][\A p \in Polls :
          (poll[p].pc = "update" /\ poll'[p] # poll[p])
          => \A i \in 1..Len(transactions) :
               transactions'[i] # transactions[i] => transactions[i].status = "new"]_vars

\* C7, reached: the first pass selected and flipped the one row there was;
\* a second row came later and the second pass selected and flipped that one
\* alone.
C7_SecondPassSkipsFlipped ==
  /\ Len(transactions) = 2
  /\ \A i \in 1..2 : /\ transactions[i].company_id = "c1"
                     /\ transactions[i].status \in {"completed", "failed"}
                     /\ origin[i].via \in {"sync", "manual"}
  /\ \E p, q \in Polls :
       /\ p # q
       /\ \A r \in {p, q} : /\ poll[r].pc = "done" /\ ~poll[r].access_token
                            /\ poll[r].resp = Response(200, "success")
                            /\ poll[r].processed = 1 /\ poll[r].rejected = 0

\* What a call answers over an empty batch.
EmptyOutcome(p) ==
  /\ poll'[p].pc = "done"
  /\ transactions' = transactions /\ mailbox' = mailbox
  /\ poll'[p].resp.status # 500
       => /\ poll'[p].resp = Response(200, "success")
          /\ poll'[p].processed = 0 /\ poll'[p].succeeded = 0 /\ poll'[p].failed = 0

\* C8: a call whose list request finds no unread message, or whose select
\* finds no new row of the company, answers processed = succeeded = failed = 0
\* and writes nothing.
C8_EmptyBatchNoOp ==
  [][\A p \in Polls :
       /\ (/\ poll[p].pc = "list" /\ poll'[p] # poll[p]
           /\ \A k \in 1..Len(mailbox) : ~mailbox[k].unread) => EmptyOutcome(p)
       /\ (/\ poll[p].pc = "select" /\ poll'[p] # poll[p]
           /\ NewRowsOf(poll[p].company_id) = {}) => EmptyOutcome(p)]_vars

\* C8, reached: a call with access_token over a mailbox with no unread
\* message, and a call without over a table that holds rows but no new row of
\* the company, were both answered with zeros.
C8_EmptyCallsAnswered ==
  \E p, q \in Polls :
    /\ poll[p].pc = "done" /\ poll[p].access_token
    /\ poll[q].pc = "done" /\ ~poll[q].access_token
    /\ \A r \in {p, q} : /\ poll[r].resp = Response(200, "success")
                         /\ poll[r].processed = 0
                         /\ poll[r].succeeded = 0 /\ poll[r].failed = 0
    /\ Len(transactions) > 0

\* C9: a batch item whose insert or update is rejected is counted failed and
\* not succeeded, writes nothing, and the loop goes on to the next item (or,
\* after the last item, to the success response); a call answered with
\* success has counted every item once.
C9_BatchIsolation ==
  /\ [][\A p \in Polls :
          poll'[p].rejected = poll[p].rejected + 1
          => /\ poll'[p].failed = poll[p].failed + 1
             /\ poll'[p].succeeded = poll[p].succeeded
             /\ transactions' = transactions
             /\ IF poll[p].i < BatchLen(poll[p])
                THEN /\ poll'[p].pc \in {"fetch", "examine"}
                     /\ poll'[p].i = poll[p].i + 1
                ELSE poll'[p].resp = Response(200, "success")]_vars
  /\ [](\A p \in Polls :
          poll[p].resp = Response(200, "success")
            => poll[p].succeeded + poll[p].failed = poll[p].processed)

\* C9, reached: of a batch of two items one was rejected by the database and
\* the other was stored; the call was answered with success.
C9_RejectedItemAmongStored ==
  \E p \in Polls :
    /\ poll[p].pc = "done" /\ poll[p].resp = Response(200, "success")
    /\ poll[p].processed = 2 /\ poll[p].rejected = 1
    /\ poll[p].succeeded = 1 /\ poll[p].failed = 1

\* C10 as stated: no delivery and no poll call is answered with the error
\* response of an extraction that failed.
C10_ExtractionFailureNeverRequestError ==
  /\ \A d \in Deliveries : wh[d].resp.reason # "extraction_exception"
  /\ \A p \in Polls : poll[p].resp.reason # "extraction_exception"

\* The steps of delivery d that end its request with the given answer.
Answers(d, status, reason) ==
  wh[d].pc # "done" /\ wh'[d].pc = "done" /\ wh'[d].resp = Response(status, reason)

\* What the row a successful direct-mode insert adds shares with the
\* request, whatever its amount.
DirectRow(d, row) ==
  /\ row.status = "completed"
  /\ row.company_id = wh[d].company_id
  /\ row.sender_name = wh[d].extracted.sender_name
  /\ row.bank_source = wh[d].extracted.bank_source
  /\ row.message_id = wh[d].message_id

\* C11 as stated: a delivery answered success has added exactly one row,
\* completed, with the extracted amount, sender_name, bank_source and the
\* request's message_id; one answered no_payment_data_found has added none.
C11_DirectRowIsExtraction ==
  [][\A d \in Deliveries :
       /\ Answers(d, 200, "success")
            => /\ Len(transactions') = Len(transactions) + 1
               /\ SubSeq(transactions', 1, Len(transactions)) = transactions
               /\ DirectRow(d, transactions'[Len(transactions')])
               /\ transactions'[Len(transactions')].amount = wh[d].extracted.amount
       /\ Answers(d, 200, "no_payment_data_found") => transactions' = transactions]_vars

\* C11, amended: as C11, with the stored amount being the extracted amount
\* rounded to two decimals, and the success response carrying the extracted
\* amount and sender_name; only a delivery answered success adds a row.
C11_DirectRowIsRoundedExtraction ==
  [][\A d \in Deliveries :
       /\ Answers(d, 200, "success")
            => /\ Len(transactions') = Len(transactions) + 1
               /\ SubSeq(transactions', 1, Len(transactions)) = transactions
               /\ DirectRow(d, transactions'[Len(transactions')])
               /\ transactions'[Len(transactions')].amount
                    = Numeric15_2(wh[d].extracted.amount)
               /\ wh[d].extracted.found /\ wh[d].extracted.amount > 0
               /\ wh'[d].extracted = wh[d].extracted
       /\ (wh'[d] # wh[d] /\ ~Answers(d, 200, "success"))
            => transactions' = transactions]_vars

\* C11, reached: a delivery with a message_id was answered success and its
\* row is in the table; another was answered no_payment_data_found.
C11_DirectStoredAndNothingFound ==
  \E d, e \in Deliveries :
    /\ wh[d].pc = "done" /\ wh[d].resp = Response(200, "success")
    /\ wh[d].message_id # NoMessageId
    /\ \E i \in 1..Len(transactions) :
         /\ transactions[i].message_id = wh[d].message_id
         /\ transactions[i].status = "completed"
         /\ transactions[i].amount = wh[d].extracted.amount
         /\ transactions[i].sender_name = wh[d].extracted.sender_name
    /\ wh[e].pc = "done" /\ wh[e].resp = Response(200, "no_payment_data_found")

\* The steps in which phase-B call p updates the row of its current item.
UpdatesItem(p) == poll[p].pc = "update" /\ poll'[p] # poll[p]

\* The steps in which phase-B call p returns its success response.
ReturnsSuccess(p) ==
  /\ ~poll[p].access_token /\ poll[p].pc \in {"select", "update"}
  /\ poll'[p].pc = "done" /\ poll'[p].resp = Response(200, "success")

\* The row of call p's current item is left completed with the given amount
\* and the extracted sender_name and bank_source, or failed if nothing was
\* extracted.
ItemSettled(p, amount) ==
  LET row == transactions'[poll[p].newTxs[poll[p].i].id] IN
  IF poll[p].extracted.found
  THEN /\ row.status = "completed"
       /\ row.amount = amount
       /\ row.sender_name = poll[p].extracted.sender_name
       /\ row.bank_source = poll[p].extracted.bank_source
  ELSE row.status = "failed"

C13_UpdateKeepsIdentity ==
  [][\A p \in Polls :
       UpdatesItem(p)
       => /\ Len(transactions') = Len(transactions)
          /\ \A i \in 1..Len(transactions) :
               /\ transactions'[i].id = transactions[i].id
               /\ transactions'[i].company_id = transactions[i].company_id
               /\ transactions'[i].message_id = transactions[i].message_id
               /\ transactions'[i].created_at = transactions[i].created_at
               /\ i # poll[p].newTxs[poll[p].i].id
                    => transactions'[i] = transactions[i]]_vars

\* C13, reached: a row inserted as a placeholder is completed and a row
\* added by hand is failed, each still under its id and company.
C13_UpdatedRowsKeepIdentity ==
  \E i, j \in 1..Len(transactions) :
    /\ origin[i].via = "sync" /\ transactions[i].status = "completed"
    /\ origin[j].via = "manual" /\ transactions[j].status = "failed"
    /\ transactions[i].id = i /\ transactions[j].id = j
    /\ transactions[i].company_id = "c1" /\ transactions[j].company_id = "c1"

C16_NoCompanyIs400 ==
  [][/\ \A d \in Deliveries :
          (/\ wh[d].pc = "idle" /\ wh'[d].pc # "idle"
           /\ wh'[d].company_id = NoCompany /\ wh'[d].resp.status \notin {500, 401})
          => /\ wh'[d].pc = "done"
             /\ wh'[d].resp = Response(400, "company_id required")
             /\ transactions' = transactions /\ mailbox' = mailbox
     /\ \A p \in Polls :
          (/\ poll[p].pc = "idle" /\ poll'[p].pc # "idle"
           /\ poll'[p].company_id = NoCompany /\ poll'[p].resp.status # 500)
          => /\ poll'[p].pc = "done"
             /\ poll'[p].resp = Response(400, "company_id is required")
             /\ transactions' = transactions /\ mailbox' = mailbox]_vars

\* C16, reached: over a table that holds a row and a mailbox with an unread
\* message, a delivery and a poll call without company_id were answered 400.
C16_BothAnswered400 ==
  \E d \in Deliveries, p \in Polls :
    /\ wh[d].pc = "done" /\ wh[d].resp = Response(400, "company_id required")
    /\ poll[p].pc = "done" /\ poll[p].resp = Response(400, "company_id is required")
    /\ Len(transactions) > 0
    /\ \E k \in 1..Len(mailbox) : mailbox[k].unread

\* C17: the insert step of a delivery either adds one row and answers
\* success, or (the insert was rejected) leaves the table as it was and
\* answers 500 with the message of the error.
C17_InsertErrorIs500 ==
  [][\A d \in Deliveries :
       (wh[d].pc = "insert" /\ wh'[d] # wh[d])
       => \/ /\ Len(transactions') = Len(transactions) + 1
             /\ wh'[d].resp = Response(200, "success")
          \/ /\ transactions' = transactions
             /\ wh'[d].pc = "done" /\ wh'[d].resp.status = 500
             /\ wh'[d].resp.reason \in {"insert_error", "duplicate_key"}]_vars

\* C17, reached: a delivery's insert was rejected for another reason than
\* its message_id; it was answered 500 and no row carries its message_id.
C17_RejectedInsertAnswered500 ==
  \E d \in Deliveries :
    /\ wh[d].pc = "done" /\ wh[d].resp = Response(500, "insert_error")
    /\ wh[d].message_id # NoMessageId
    /\ \A i \in 1..Len(transactions) : transactions[i].message_id # wh[d].message_id

\* C18: a call with access_token gets to its mark-as-read request only in
\* the step in which it inserted the row of its current message; a message
\* loses its UNREAD label only in the mark-as-read step of a call whose
\* current message it is; and a step that counts a message failed leaves the
\* mailbox as it was.
C18_ReadOnlyAfterInsert ==
  [][/\ \A p \in Polls :
          /\ (poll[p].pc # "markread" /\ poll'[p].pc = "markread")
               => /\ poll[p].access_token
                  /\ Len(transactions') = Len(transactions) + 1
                  /\ origin'[Len(origin')].via = "poll"
                  /\ origin'[Len(origin')].msg = poll'[p].messages[poll'[p].i]
                  /\ poll'[p].messages = poll[p].messages /\ poll'[p].i = poll[p].i
                  /\ poll'[p].succeeded = poll[p].succeeded + 1
          /\ poll'[p].failed = poll[p].failed + 1 => mailbox' = mailbox
     /\ \A k \in 1..Len(mailbox) :
          (mailbox[k].unread /\ ~mailbox'[k].unread)
            => \E p \in Polls : /\ poll[p].pc = "markread"
                                /\ poll[p].messages[poll[p].i] = k]_vars

\* C18, reached: a call with access_token over two unread messages is over;
\* the message whose row it inserted is read, the one it counted failed is
\* unread.
C18_StoredReadFailedUnread ==
  \E p \in Polls :
    /\ poll[p].pc = "done" /\ poll[p].access_token
    /\ poll[p].processed = 2 /\ poll[p].succeeded = 1 /\ poll[p].failed = 1
    /\ Len(mailbox) = 2
    /\ \E k \in 1..2 :
         /\ ~mailbox[k].unread /\ mailbox[3 - k].unread
         /\ \E i \in 1..Len(origin) : origin[i].via = "poll" /\ origin[i].msg = k
         /\ \A i \in 1..Len(origin) : origin[i].msg # 3 - k

\* C19: the step in which a call's batch raises (the exception of an
\* extraction, answered 500) leaves every row of the table, and the mailbox,
\* as the items before it left them.
C19_NoRollback ==
  [][\A p \in Polls :
       (/\ poll[p].pc \in {"fetch", "examine"}
        /\ poll'[p].pc = "done" /\ poll'[p].resp.status = 500)
       => /\ transactions' = transactions
          /\ mailbox' = mailbox
          /\ poll'[p].succeeded = poll[p].succeeded
          /\ poll'[p].failed = poll[p].failed]_vars

\* C19, reached: a call with access_token inserted the row of its first
\* message and raised on its second; it was answered 500 and the row is in
\* the table.
C19_RaisedAfterFirstInsert ==
  \E p \in Polls :
    /\ poll[p].pc = "done" /\ poll[p].access_token
    /\ poll[p].resp = Response(500, "extraction_exception")
    /\ poll[p].processed = 2 /\ poll[p].succeeded = 1
    /\ \E i \in 1..Len(transactions) :
         /\ origin[i].via = "poll" /\ origin[i].msg = 1
         /\ transactions[i].status = "completed"

\* One of the two patterns finds an address in the header.
Extractable(h) == AngleStarts(h) # {} \/ BareStarts(h) # {}

\* C20 as stated: a delivery that got to the sender filter went past it
\* exactly if an address can be extracted from its From header (angle-bracket
\* form first, else bare address) and the domain after its "@", lower-cased
\* and trimmed, is an allow-listed domain or ends with "." and one; a header
\* with no extractable address is rejected.
C20_FilterIsFailClosed ==
  \A d \in Deliveries :
    (Delivered(d) /\ wh[d].company_id # NoCompany)
    => ((wh[d].resp.reason # "sender_domain_not_allowed")
          <=> /\ Extractable(wh[d].from)
              /\ \E allowed \in ALLOWED_BANK_DOMAINS :
                   \/ DomainOf(wh[d].from) = allowed
                   \/ EndsWith(DomainOf(wh[d].from), <<".">> \o allowed))

\* C21: get_staff_transactions returns rows of the requested company only,
\* and only when the company_code and staff_pin supplied are those of that
\* company and its system_active is true; otherwise it raises Unauthorized.
\* A boss session is shown only transactions of companies its user owns.
C21_VisibleOnlyToAuthorized ==
  [][ reads' # reads =>
        LET r == reads' IN
        /\ r.by = "staff" =>
              IF /\ companies[r.company_id].company_code = r.company_code
                 /\ companies[r.company_id].staff_pin = r.staff_pin
                 /\ companies[r.company_id].system_active
              THEN /\ r.raised = ""
                   /\ \A j \in 1..Len(r.rows) : r.rows[j].company_id = r.company_id
              ELSE r.raised = "Unauthorized" /\ r.rows = <<>>
        /\ r.by = "boss" =>
              \A j \in 1..Len(r.rows) :
                companies[r.rows[j].company_id].owner_id = r.uid ]_vars

\* A kiosk was given the one row of its company while the table also holds
\* a row of the other company.
C21_KioskSeesOwnRowOnly ==
  /\ reads.by = "staff" /\ reads.raised = "" /\ Len(reads.rows) = 1
  /\ \E i \in 1..Len(transactions) : transactions[i].company_id # reads.company_id
  /\ \E i \in 1..Len(transactions) : transactions[i].company_id = reads.company_id

\* C22: a step of the webhook or of the poll trigger (either mode) leaves
\* the companies as they are and removes no transaction; every row it
\* inserts or updates carries the company_id of the request.
C22_PipelineWritesOnlyRequestCompanyRows ==
  [][ (wh' # wh \/ poll' # poll) =>
        /\ companies' = companies
        /\ Len(transactions') >= Len(transactions)
        /\ \A i \in 1..Len(transactions') :
             (i > Len(transactions) \/ transactions'[i] # transactions[i]) =>
               /\ \A d \in Deliveries :
                    wh'[d] # wh[d] => transactions'[i].company_id = wh[d].company_id
               /\ \A p \in Polls :
                    poll'[p] # poll[p] => transactions'[i].company_id = poll[p].company_id
    ]_vars

\* A phase-B call for c1 has settled c1's row and answered, and the row of
\* the other company is still new.
C22_OtherCompanyRowLeftNew ==
  /\ poll[1].pc = "done" /\ poll[1].resp = Response(200, "success")
  /\ ~poll[1].access_token /\ poll[1].processed > 0
  /\ \E i \in 1..Len(transactions) :
       transactions[i].company_id = "c1" /\ transactions[i].status # "new"
  /\ \E i \in 1..Len(transactions) :
       transactions[i].company_id = "c2" /\ transactions[i].status = "new"

\* C23: with a required environment value absent, every webhook delivery
\* and every poll call is answered 500 with "Missing ... environment
\* variables" at once: no field of the request is checked, no lookup, select,
\* insert or update is made, the mailbox is not listed and the model is not
\* called.
C23_MissingEnvIsFatal ==
  (~env.GEMINI_API_KEY \/ ~env.SUPABASE) =>
    /\ \A d \in Deliveries :
         /\ wh[d].pc \in {"idle", "done"}
         /\ wh[d].pc = "done" => wh[d].resp = Response(500, "Missing environment variables")
         /\ wh[d].lookup = "none"
    /\ \A p \in Polls :
         /\ poll[p].pc \in {"idle", "done"}
         /\ poll[p].pc = "done" =>
              poll[p].resp = Response(500, "Missing required environment variables")
         /\ poll[p].processed = 0 /\ poll[p].rejected = 0
    /\ \A i \in 1..Len(origin) : origin[i].via \notin {"webhook", "poll"}
    /\ \A k \in 1..Len(mailbox) : mailbox[k].unread

\* Without GEMINI_API_KEY, a delivery and a poll call that names no company
\* were both answered 500 for the environment.
C23_BothAnswered500 ==
  /\ ~env.GEMINI_API_KEY
  /\ wh[1].resp = Response(500, "Missing environment variables")
  /\ poll[1].company_id = NoCompany
  /\ poll[1].resp = Response(500, "Missing required environment variables")

\* C24: when phase-B calls for the same company overlap, a row that is
\* completed is not written again: no later step sets it to failed or gives
\* it other extracted fields.
C24_CompletedNotOverwritten ==
  [][ \A i \in 1..Len(transactions) :
        transactions[i].status = "completed" => transactions'[i] = transactions[i]
    ]_vars

\* C25: extractWithGemini is about to be called, or has been called, only
\* for a delivery that passed the secret check (its header is the configured
\* secret, or none is configured), carries a company_id, has a sender the
\* filter allows and, if it carries a message_id, went through a lookup that
\* did not find it stored; a delivery skipped for its sender or as a
\* duplicate has made no model call, and no delivery makes more than one.
C25_ExtractionOnlyAfterChecks ==
  \A d \in Deliveries :
    /\ (wh[d].pc = "extract" \/ wh[d].model_calls > 0) =>
         /\ env.WEBHOOK_SECRET # "" => wh[d].secret_matches
         /\ wh[d].company_id # NoCompany
         /\ isAllowedDomain(wh[d].from)
         /\ wh[d].message_id # NoMessageId => wh[d].lookup # "none"
         /\ ~(wh[d].lookup = "answered" /\ wh[d].stored_on_arrival)
         /\ wh[d].resp.reason \notin {"sender_domain_not_allowed", "duplicate"}
    /\ wh[d].resp.reason \in {"sender_domain_not_allowed", "duplicate",
                              "Unauthorized", "company_id required"}
         => wh[d].model_calls = 0
    /\ wh[d].model_calls <= 1

\* One delivery went through the model and stored its row; the next, with
\* the same message_id, was skipped as a duplicate without a model call.
C25_SecondSkippedWithoutCall ==
  /\ wh[1].model_calls = 1 /\ wh[1].resp = Response(200, "success")
  /\ wh[2].model_calls = 0 /\ wh[2].resp = Response(200, "duplicate")

\* The steps in which phase-B call p writes the outcome of an item whose raw
\* text (the sender_name it selected) has fewer than 10 characters.
UpdatesShortItem(p) ==
  UpdatesItem(p) /\ Len(poll[p].newTxs[poll[p].i].sender_name) < 10

\* C26 as stated: a selected row whose raw text is empty or shorter than 10
\* characters is set to status failed and counted as failed, and the model
\* is not called for it.
C26_ShortRowSetFailed ==
  [][\A p \in Polls :
       UpdatesShortItem(p) =>
         /\ ~poll[p].called
         /\ poll'[p].failed = poll[p].failed + 1
         /\ poll'[p].succeeded = poll[p].succeeded
         /\ transactions'[poll[p].newTxs[poll[p].i].id].status = "failed"]_vars

\* C26, amended: such a row is counted as failed and the model is not called
\* for it; it is set to status failed unless the store rejects the update,
\* whose error is not read, and then the table is as it was.
C26_ShortRowCountedFailed ==
  [][\A p \in Polls :
       UpdatesShortItem(p) =>
         /\ ~poll[p].called
         /\ poll'[p].failed = poll[p].failed + 1
         /\ poll'[p].succeeded = poll[p].succeeded
         /\ IF poll'[p].rejected = poll[p].rejected
            THEN transactions'[poll[p].newTxs[poll[p].i].id].status = "failed"
            ELSE transactions' = transactions]_vars

\* C26, reached: a phase-B call found the hand-added row of sender "Ada",
\* set it to failed and answered failed = 1.
C26_ShortRowFailed ==
  \E p \in Polls :
    /\ poll[p].pc = "done" /\ ~poll[p].access_token
    /\ poll[p].resp = Response(200, "success")
    /\ poll[p].processed = 1 /\ poll[p].failed = 1 /\ poll[p].rejected = 0
    /\ \E i \in 1..Len(transactions) :
         /\ origin[i].via = "manual" /\ transactions[i].company_id = poll[p].company_id
         /\ Len(transactions[i].sender_name) < 10
         /\ transactions[i].status = "failed"

\* C27: a poll call answered with success, in either mode, reports
\* processed = succeeded + failed; while its loop runs, processed is the size
\* of the batch and every item before the current one has been counted once,
\* as succeeded or as failed.
C27_ProcessedIsSucceededPlusFailed ==
  \A p \in Polls :
    /\ poll[p].resp = Response(200, "success")
         => poll[p].processed = poll[p].succeeded + poll[p].failed
    /\ poll[p].pc \in {"fetch", "insert", "examine", "update"}
         => /\ poll[p].processed = BatchLen(poll[p])
            /\ poll[p].succeeded + poll[p].failed = poll[p].i - 1
    /\ poll[p].pc = "markread"
         => /\ poll[p].processed = BatchLen(poll[p])
            /\ poll[p].succeeded + poll[p].failed = poll[p].i

\* A MODE 1 call over two messages stored one and failed one, and a MODE 2
\* call after it settled one row: both were answered with success.
C27_BothModesCounted ==
  /\ poll[1].access_token /\ poll[1].resp = Response(200, "success")
  /\ poll[1].processed = 2 /\ poll[1].succeeded = 1 /\ poll[1].failed = 1
  /\ ~poll[2].access_token /\ poll[2].resp = Response(200, "success")
  /\ poll[2].processed = 1 /\ poll[2].succeeded = 1

\* C28: for a delivery without message_id no dedup lookup is made, it is
\* never answered skipped/duplicate, and its insert is never turned away for
\* a key that is taken: the insert adds a row of the request's company with
\* message_id null and is answered success, unless the store fails and the
\* delivery is answered 500 with the store's error.
C28_NoMessageIdNeverDeduplicated ==
  /\ [](\A d \in Deliveries :
          (wh[d].pc # "idle" /\ wh[d].message_id = NoMessageId)
            => /\ wh[d].lookup = "none"
               /\ wh[d].resp.reason \notin {"duplicate", "duplicate_key"})
  /\ [][\A d \in Deliveries :
          (wh[d].pc = "insert" /\ wh[d].message_id = NoMessageId /\ wh'[d] # wh[d])
            => \/ /\ Answers(d, 200, "success")
                  /\ Len(transactions') = Len(transactions) + 1
                  /\ SubSeq(transactions', 1, Len(transactions)) = transactions
                  /\ transactions'[Len(transactions')].message_id = NoMessageId
                  /\ transactions'[Len(transactions')].company_id = wh[d].company_id
               \/ /\ Answers(d, 500, "insert_error")
                  /\ transactions' = transactions]_vars

\* Two deliveries of the same email without message_id were both answered
\* success, and the table holds the two rows, message_id null.
C28_SameEmailStoredTwice ==
  /\ \A d \in 1..2 :
       /\ wh[d].message_id = NoMessageId /\ wh[d].from = FromBank
       /\ wh[d].resp = Response(200, "success")
  /\ wh[1].extracted = wh[2].extracted
  /\ Len(transactions) = 2
  /\ \A i \in 1..2 : transactions[i].message_id = NoMessageId /\ origin[i].via = "webhook"

\* C29: no step removes a row, and no step changes the created_at, the id
\* or the company_id of a row: not the phase-B updates to completed or to
\* failed, not the save of the edit form, not the kiosk's confirmation.
C29_CreatedAtImmutable ==
  [][ /\ Len(transactions') >= Len(transactions)
      /\ \A i \in 1..Len(transactions) :
           /\ transactions'[i].created_at = transactions[i].created_at
           /\ transactions'[i].id = transactions[i].id
           /\ transactions'[i].company_id = transactions[i].company_id ]_vars

\* A placeholder row was completed by phase B, saved from the edit form and
\* confirmed at the kiosk after a second row was added; it has the
\* created_at of its insert.
C29_UpdatedThriceSameCreatedAt ==
  /\ Len(transactions) = 2
  /\ origin[1].via = "sync"
  /\ transactions[1].status = "completed"
  /\ transactions[1].sender_name \in FormSenders
  /\ transactions[1].acknowledged_at = 3
  /\ transactions[1].created_at = 1 /\ transactions[1].id = 1

\* The viewer's fetch has resolved and the channel has come to the last row.
ViewerSettled == viewer.pc = "ready" /\ viewer.cursor = Len(transactions)

\* C30 as stated: once the fetch has resolved and every INSERT event has
\* been handed on, the in-memory list holds every transaction the fetch
\* returned or an event announced, and no id twice.
C30_ListHoldsEachOnce ==
  ViewerSettled =>
    /\ \A id \in viewer.fetched \cup viewer.notified :
         \E j \in 1..Len(viewer.transactions) : viewer.transactions[j].id = id
    /\ \A j, k \in 1..Len(viewer.transactions) :
         j # k => viewer.transactions[j].id # viewer.transactions[k].id

====
